---- MODULE Spec2Model ----
(***************************************************************************)
(* Model of the apple-ble crate: the per-kind message codec                *)
(* (octets / try_from), the advertisement assembler and register, and     *)
(* set_device_addr.  Byte sequences are TLA+ sequences of 0..255; a Rust   *)
(* slice value[a..b] is SubSeq(value, a + 1, b).  Option values are sets   *)
(* with at most one element, maps are sets of <<key, value>> pairs.        *)
(***************************************************************************)
EXTENDS Integers, Sequences, FiniteSets, TLC

VARIABLES
    texts,         \* the three Option<String> handed to AirDropAdvertisementData::new
    module,        \* which source module the call goes to
    kind,          \* the message kind of the call
    user_data,     \* the record handed to octets / register
    value,         \* the Vec<u8> handed to try_from
    address,       \* the bluer Address handed to FindMy's try_from
    serialized,    \* Option: what octets returned
    deserialized,  \* Option: what try_from returned
    touched,       \* offsets of value overwritten since the first try_from
    first,         \* Option: what try_from returned before any overwrite
    device_addr,   \* Option: the device_addr argument of set_device_addr
    command,       \* Option: the std::process::Command value built
    advertisement, \* Option: the Advertisement assemble_advertisement built
    trace,         \* the calls made so far, in order, with their outcomes
    result,        \* Option: what register returned
    pc             \* position of the caller

vars == <<texts, module, kind, user_data, value, address, serialized, deserialized,
          touched, first, device_addr, command, advertisement, trace, result, pc>>

(***************************************************************************)
(* Bounds of the model.                                                    *)
(***************************************************************************)
\* records and raw inputs are generated from the seeds 0..MaxSeed
MaxSeed == 2
\* raw inputs of try_from have 0..MaxValueLen bytes
MaxValueLen == 26
\* at most MaxTouched bytes of an input are overwritten
MaxTouched == 2

Seeds == 0..MaxSeed
Byte == 0..255

\* A byte that depends on the seed and on the position; odd multipliers make
\* neighbouring positions differ.
SampleByte(seed, i) == (seed * 89 + i * 37 + 1) % 256
SampleBytes(seed, from, len) == [i \in 1..len |-> SampleByte(seed, from + i)]
Repeat(b, len) == [i \in 1..len |-> b]

(***************************************************************************)
(* Rust primitives used by the codec.                                      *)
(***************************************************************************)
Some(x) == {x}
None == {}
Unwrap(o) == CHOOSE x \in o : TRUE

Ok(x) == [tag |-> "Ok", data |-> x]
Err(e) == [tag |-> "Err", data |-> [error |-> e]]
Panic == [tag |-> "Panic", data |-> [error |-> "index out of range"]]

\* value[from..to] is in bounds
InRange(v, from, to) == from <= to /\ to <= Len(v)
\* value[from..to], 0-based and end-exclusive
Slice(v, from, to) == SubSeq(v, from + 1, to)
\* value[i], 0-based
At(v, i) == v[i + 1]
\* <[u8; n]>::try_from(&[u8])
TryIntoArray(s, n) == IF Len(s) = n THEN Ok(s) ELSE Err("TryFromSliceError")

RECURSIVE BitOr(_, _)
BitOr(a, b) ==
    IF a = 0 THEN b
    ELSE IF b = 0 THEN a
    ELSE (IF a % 2 = 1 \/ b % 2 = 1 THEN 1 ELSE 0) + 2 * BitOr(a \div 2, b \div 2)
\* x << n on a u16
Shl16(x, n) == (x * (2 ^ n)) % 65536
\* the low bits kept in place of the high ones
Shr8_low(x, n) == x % (2 ^ (8 - n))
\* x >> n on a u8
Shr8(x, n) == x \div (2 ^ n)
\* u16::to_le_bytes in place of to_be_bytes
ToLeBytes(x) == <<x % 256, x \div 256>>
\* u16::to_be_bytes
ToBeBytes(x) == <<x \div 256, x % 256>>

\* std::net::Ipv4Addr / Ipv6Addr keep the address as its octets
IpAddr_from(bytes) == [octets |-> bytes]
IpAddr_octets(ip) == ip.octets

(***************************************************************************)
(* src/advertisement.rs: the codec.                                        *)
(***************************************************************************)
APPLE_MAGIC == 76

AirDrop_octets(d) ==
    <<5, 18>> \o Repeat(0, 8) \o <<1>> \o d.apple_id \o d.phone \o d.email \o d.email

\* the tokens read one byte early
AirDrop_try_from_shifted(v) ==
    IF ~InRange(v, 10, 16) THEN Panic
    ELSE Ok([apple_id |-> Slice(v, 10, 12), phone |-> Slice(v, 12, 14),
             email |-> Slice(v, 14, 16)])

AirDrop_try_from(v) ==
    IF ~InRange(v, 11, 13) THEN Panic
    ELSE LET apple_id == TryIntoArray(Slice(v, 11, 13), 2) IN
    IF apple_id.tag = "Err" THEN apple_id
    ELSE IF ~InRange(v, 13, 15) THEN Panic
    ELSE LET phone == TryIntoArray(Slice(v, 13, 15), 2) IN
    IF phone.tag = "Err" THEN phone
    ELSE IF ~InRange(v, 15, 17) THEN Panic
    ELSE LET email == TryIntoArray(Slice(v, 15, 17), 2) IN
    IF email.tag = "Err" THEN email
    ELSE Ok([apple_id |-> apple_id.data, phone |-> phone.data, email |-> email.data])

AirPlaySource_octets(d) == <<10, 1, 0>>

AirPlaySource_try_from(v) == Ok([unit |-> TRUE])

AirPlayTarget_octets(d) == <<9, 6, 3, 7>> \o IpAddr_octets(d.ip_address)

AirPlayTarget_try_from(v) ==
    IF ~InRange(v, 4, 8) THEN Panic
    ELSE LET ip_address == TryIntoArray(Slice(v, 4, 8), 4) IN
    IF ip_address.tag = "Err" THEN ip_address
    ELSE Ok([ip_address |-> IpAddr_from(ip_address.data)])

AirPrint_octets(d) ==
    <<3, 22, 116, 7, 111>> \o ToBeBytes(d.port) \o IpAddr_octets(d.ip_addr) \o <<d.power>>

AirPrint_try_from(v) ==
    IF ~InRange(v, 7, 23) THEN Panic
    ELSE LET ip_address == TryIntoArray(Slice(v, 7, 23), 16) IN
    IF ip_address.tag = "Err" THEN ip_address
    ELSE IF Len(v) <= 23 THEN Panic
    ELSE Ok([port |-> BitOr(Shl16(At(v, 5), 8), At(v, 6)),
             ip_addr |-> IpAddr_from(ip_address.data),
             power |-> At(v, 23)])

\* the trailing derived byte left out
FindMy_octets_short(d) == <<18, 25, 0>> \o SubSeq(d.public_key, 7, 28)

FindMy_octets(d) ==
    LET head == SubSeq(d.public_key, 1, 6)
        tail == SubSeq(d.public_key, 7, 28)
    IN  <<18, 25, 0>> \o tail \o <<Shr8(head[1], 6)>>

FindMy_try_from(a, v) ==
    IF ~InRange(v, 2, 24) THEN Panic
    ELSE LET public_key == TryIntoArray(a \o Slice(v, 2, 24), 28) IN
    IF public_key.tag = "Err" THEN public_key
    ELSE Ok([public_key |-> public_key.data])

(***************************************************************************)
(* src/util.rs: get_first_two_bytes_of_sha256.  Sha256 is the digest of    *)
(* the sha2 crate, SHA-256 of FIPS 180-4.  A u32 is the pair <<hi, lo>> of *)
(* its 16-bit halves.                                                      *)
(***************************************************************************)
RECURSIVE BitXor(_, _)
BitXor(a, b) ==
    IF a = 0 THEN b
    ELSE IF b = 0 THEN a
    ELSE ((a + b) % 2) + 2 * BitXor(a \div 2, b \div 2)
RECURSIVE BitAnd(_, _)
BitAnd(a, b) ==
    IF a = 0 \/ b = 0 THEN 0
    ELSE ((a % 2) * (b % 2)) + 2 * BitAnd(a \div 2, b \div 2)

Xor32(a, b) == <<BitXor(a[1], b[1]), BitXor(a[2], b[2])>>
And32(a, b) == <<BitAnd(a[1], b[1]), BitAnd(a[2], b[2])>>
Not32(a) == <<65535 - a[1], 65535 - a[2]>>
\* wrapping_add
Add32(a, b) ==
    LET lo == a[2] + b[2]
    IN  <<(a[1] + b[1] + (lo \div 65536)) % 65536, lo % 65536>>
\* rotate_right
Rotr32(x, n) ==
    LET y == IF n >= 16 THEN <<x[2], x[1]>> ELSE x
        k == n % 16
    IN  <<(y[1] \div (2 ^ k)) + (y[2] % (2 ^ k)) * (2 ^ (16 - k)),
          (y[2] \div (2 ^ k)) + (y[1] % (2 ^ k)) * (2 ^ (16 - k))>>
\* x >> n, n < 16
Shr32(x, n) ==
    <<x[1] \div (2 ^ n), (x[2] \div (2 ^ n)) + (x[1] % (2 ^ n)) * (2 ^ (16 - n))>>

Sha256_H0 ==
  <<<<27145, 58983>>, <<47975, 44677>>, <<15470, 62322>>, <<42319, 62778>>,
    <<20750, 21119>>, <<39685, 26764>>, <<8067, 55723>>, <<23520, 52505>>>>

Sha256_K ==
  <<<<17034, 12184>>, <<28983, 17553>>, <<46528, 64463>>, <<59829, 56229>>,
    <<14678, 49755>>, <<23025, 4593>>, <<37439, 33444>>, <<43804, 24277>>,
    <<55303, 43672>>, <<4739, 23297>>, <<9265, 34238>>, <<21772, 32195>>,
    <<29374, 23924>>, <<32990, 45566>>, <<39900, 1703>>, <<49563, 61812>>,
    <<58523, 27073>>, <<61374, 18310>>, <<4033, 40390>>, <<9228, 41420>>,
    <<11753, 11375>>, <<19060, 33962>>, <<23728, 43484>>, <<30457, 35034>>,
    <<38974, 20818>>, <<43057, 50797>>, <<45059, 10184>>, <<48985, 32711>>,
    <<50912, 3059>>, <<54695, 37191>>, <<1738, 25425>>, <<5161, 10599>>,
    <<10167, 2693>>, <<11803, 8504>>, <<19756, 28156>>, <<21304, 3347>>,
    <<25866, 29524>>, <<30314, 2747>>, <<33218, 51502>>, <<37490, 11397>>,
    <<41663, 59553>>, <<43034, 26187>>, <<49739, 35696>>, <<51052, 20899>>,
    <<53650, 59417>>, <<54937, 1572>>, <<62478, 13701>>, <<4202, 41072>>,
    <<6564, 49430>>, <<7735, 27656>>, <<10056, 30540>>, <<13488, 48309>>,
    <<14620, 3251>>, <<20184, 43594>>, <<23452, 51791>>, <<26670, 28659>>,
    <<29839, 33518>>, <<30885, 25455>>, <<33992, 30740>>, <<36039, 520>>,
    <<37054, 65530>>, <<42064, 27883>>, <<48889, 41975>>, <<50801, 30962>>>>

\* the message with the 0x80 byte, the zero bytes and the 64-bit bit length
Sha256_pad(msg) ==
    LET zeros == (119 - Len(msg)) % 64
        bits == Len(msg) * 8
    IN  msg \o <<128>> \o Repeat(0, zeros)
            \o <<0, 0, 0, 0, (bits \div 16777216) % 256, (bits \div 65536) % 256,
                 (bits \div 256) % 256, bits % 256>>

\* the big-endian word at byte offset at of m
Sha256_word(m, at) == <<m[at + 1] * 256 + m[at + 2], m[at + 3] * 256 + m[at + 4]>>

Sha256_s0(x) == Xor32(Xor32(Rotr32(x, 7), Rotr32(x, 18)), Shr32(x, 3))
Sha256_s1(x) == Xor32(Xor32(Rotr32(x, 17), Rotr32(x, 19)), Shr32(x, 10))
Sha256_S0(x) == Xor32(Xor32(Rotr32(x, 2), Rotr32(x, 13)), Rotr32(x, 22))
Sha256_S1(x) == Xor32(Xor32(Rotr32(x, 6), Rotr32(x, 11)), Rotr32(x, 25))
Sha256_Ch(x, y, z) == Xor32(And32(x, y), And32(Not32(x), z))
Sha256_Maj(x, y, z) == Xor32(Xor32(And32(x, y), And32(x, z)), And32(y, z))

\* the 64 words of the message schedule, from the 16 of the block
RECURSIVE Sha256_schedule(_)
Sha256_schedule(w) ==
    IF Len(w) = 64 THEN w
    ELSE LET t == Len(w) + 1
             next == Add32(Add32(Sha256_s1(w[t - 2]), w[t - 7]),
                           Add32(Sha256_s0(w[t - 15]), w[t - 16]))
         IN  Sha256_schedule(Append(w, next))

\* round t on the working variables s = <<a, b, c, d, e, f, g, h>>
Sha256_round(s, w, t) ==
    LET t1 == Add32(Add32(Add32(s[8], Sha256_S1(s[5])),
                          Sha256_Ch(s[5], s[6], s[7])),
                    Add32(Sha256_K[t], w[t]))
        t2 == Add32(Sha256_S0(s[1]), Sha256_Maj(s[1], s[2], s[3]))
    IN  <<Add32(t1, t2), s[1], s[2], s[3], Add32(s[4], t1), s[5], s[6], s[7]>>

\* the working variables before round 1 and after each of the 64 rounds
RECURSIVE Sha256_rounds(_, _)
Sha256_rounds(states, w) ==
    IF Len(states) = 65 THEN states
    ELSE Sha256_rounds(Append(states, Sha256_round(states[Len(states)], w, Len(states))), w)

\* the hash value after the blocks from byte offset at on
RECURSIVE Sha256_blocks(_, _, _)
Sha256_blocks(h, m, at) ==
    IF at >= Len(m) THEN h
    ELSE LET w == Sha256_schedule([i \in 1..16 |-> Sha256_word(m, at + 4 * (i - 1))])
             s == Sha256_rounds(<<h>>, w)[65]
         IN  Sha256_blocks([i \in 1..8 |-> Add32(h[i], s[i])], m, at + 64)

\* Sha256::new(); hasher.update(input); hasher.finalize(): the 32 digest bytes
Sha256_digest(input) ==
    LET h == Sha256_blocks(Sha256_H0, Sha256_pad(input), 0)
        half(i) == h[((i - 1) \div 4) + 1][(((i - 1) % 4) \div 2) + 1]
    IN  [i \in 1..32 |-> IF i % 2 = 1 THEN half(i) \div 256 ELSE half(i) % 256]

\* [result[0], result[1]]
get_first_two_bytes_of_sha256(input) ==
    LET digest == Sha256_digest(input) IN <<digest[1], digest[2]>>

(***************************************************************************)
(* src/advertisements.rs: the earlier module, AirDrop and AirPlaySource    *)
(* only, encode only.                                                      *)
(***************************************************************************)
AirDrop_to_octets(d) ==
    <<5, 18, 0, 0, 0, 0, 0, 0, 0, 0, 1,
      d.apple_id[1], d.apple_id[2], d.phone[1], d.phone[2],
      d.email[1], d.email[2], d.email[1], d.email[2]>>

AirPlaySource_to_octets(d) == <<10, 1, 0>>

\* the texts handed to AirDropAdvertisementData::new, as their UTF-8 bytes:
\* "", "abc", and texts generated from the seeds
Texts == {<<>>, <<97, 98, 99>>} \cup {SampleBytes(s, 0, 3 + s) : s \in Seeds}
TextOptions == {None} \cup {Some(t) : t \in Texts}
\* get_first_two_bytes_of_sha256 on each of the texts, computed once
TokenTable == [t \in Texts |-> get_first_two_bytes_of_sha256(t)]
\* Option<String>::unwrap_or_default
unwrap_or_default(o) == IF o = None THEN <<>> ELSE Unwrap(o)

\* the phone token derived from the email text and the other way round
AirDropAdvertisementData_new_swapped(apple_id, phone, email) ==
    [apple_id |-> TokenTable[unwrap_or_default(apple_id)],
     phone |-> TokenTable[unwrap_or_default(email)],
     email |-> TokenTable[unwrap_or_default(phone)]]

AirDropAdvertisementData_new(apple_id, phone, email) ==
    [apple_id |-> TokenTable[unwrap_or_default(apple_id)],
     phone |-> TokenTable[unwrap_or_default(phone)],
     email |-> TokenTable[unwrap_or_default(email)]]

Kinds == {"AirDrop", "AirPlaySource", "AirPlayTarget", "AirPrint", "FindMy"}
Modules == {"advertisement", "advertisements"}
KindsOf(m) == IF m = "advertisement" THEN Kinds ELSE {"AirDrop", "AirPlaySource"}

\* AdvertisableData::octets (to_octets in advertisements.rs) of the kind's record
octets(m, k, d) ==
    IF m = "advertisements"
    THEN (IF k = "AirDrop" THEN AirDrop_to_octets(d) ELSE AirPlaySource_to_octets(d))
    ELSE CASE k = "AirDrop" -> AirDrop_octets(d)
           [] k = "AirPlaySource" -> AirPlaySource_octets(d)
           [] k = "AirPlayTarget" -> AirPlayTarget_octets(d)
           [] k = "AirPrint" -> AirPrint_octets(d)
           [] k = "FindMy" -> FindMy_octets(d)

\* TryFrom<Vec<u8>> (TryFrom<(Address, Vec<u8>)> for FindMy) of the kind's record
try_from(k, a, v) ==
    CASE k = "AirDrop" -> AirDrop_try_from(v)
      [] k = "AirPlaySource" -> AirPlaySource_try_from(v)
      [] k = "AirPlayTarget" -> AirPlayTarget_try_from(v)
      [] k = "AirPrint" -> AirPrint_try_from(v)
      [] k = "FindMy" -> FindMy_try_from(a, v)

(***************************************************************************)
(* The records the callers construct: the values of the repository's       *)
(* tests, and records generated from the seeds.                            *)
(***************************************************************************)
Loopback4 == IpAddr_from(<<127, 0, 0, 1>>)
Loopback6 == IpAddr_from(Repeat(0, 15) \o <<1>>)

AirDropRecords ==
    {[apple_id |-> <<254, 220>>, phone |-> <<118, 84>>, email |-> <<186, 152>>],
     [apple_id |-> <<0, 0>>, phone |-> <<0, 0>>, email |-> <<0, 0>>]}
    \cup {[apple_id |-> SampleBytes(s, 0, 2), phone |-> SampleBytes(s, 2, 2),
           email |-> SampleBytes(s, 4, 2)] : s \in Seeds}

AirPlaySourceRecords == {[unit |-> TRUE]}

AirPlayTargetRecords ==
    {[ip_address |-> Loopback4]}
    \cup {[ip_address |-> IpAddr_from(SampleBytes(s, 0, 4))] : s \in Seeds}

AirPrintRecords ==
    {[port |-> 61453, ip_addr |-> Loopback6, power |-> 255],
     [port |-> 4919, ip_addr |-> Loopback6, power |-> 100]}
    \cup {[port |-> SampleByte(s, 0) * 256 + SampleByte(s, 1),
           ip_addr |-> IpAddr_from(SampleBytes(s, 2, 16)),
           power |-> SampleByte(s, 18)] : s \in Seeds}

FindMyRecords ==
    {[public_key |-> Repeat(136, 28)], [public_key |-> Repeat(0, 28)]}
    \cup {[public_key |-> SampleBytes(s, 0, 28)] : s \in Seeds}

Records(k) ==
    CASE k = "AirDrop" -> AirDropRecords
      [] k = "AirPlaySource" -> AirPlaySourceRecords
      [] k = "AirPlayTarget" -> AirPlayTargetRecords
      [] k = "AirPrint" -> AirPrintRecords
      [] k = "FindMy" -> FindMyRecords

NoData == [none |-> TRUE]
NoTexts == [none |-> TRUE]
NoAddress == <<>>

\* the byte sequences handed to try_from directly
RawValues == {SampleBytes(s, 0, n) : s \in Seeds, n \in 0..MaxValueLen}
RawAddress(v) == IF v = <<>> THEN Repeat(136, 6) ELSE SampleBytes(v[1], 100, 6)
\* the byte an overwrite puts in place of b
Flip(b) == (b + 129) % 256

(***************************************************************************)
(* src/util.rs and the assemblers.                                         *)
(***************************************************************************)
adapter_name == "hci0"

HexDigits == <<"0", "1", "2", "3", "4", "5", "6", "7",
               "8", "9", "a", "b", "c", "d", "e", "f">>
Hex2(b) == HexDigits[(b \div 16) + 1] \o HexDigits[(b % 16) + 1]
\* eui48::MacAddress::from_bytes
MacAddress_from_bytes(bytes) ==
    IF Len(bytes) = 6 THEN Ok(bytes) ELSE Err("eui48::ParseError::InvalidLength")
\* eui48::MacAddress::to_hex_string
to_hex_string(mac) ==
    Hex2(mac[1]) \o ":" \o Hex2(mac[2]) \o ":" \o Hex2(mac[3]) \o ":" \o
    Hex2(mac[4]) \o ":" \o Hex2(mac[5]) \o ":" \o Hex2(mac[6])
\* Command::new("bdaddr").args(["-i", name, hex])
bdaddr_command(mac) ==
    [program |-> "bdaddr", args |-> <<"-i", adapter_name, to_hex_string(mac)>>]

\* the default body of Advertisable::validate_user_data; no kind overrides it
validate_user_data(m, k, d) == Ok([unit |-> TRUE])

\* FindMyAdvertisement::assemble_advertisement alone calls set_device_addr
CallsSetDeviceAddr(m, k) == m = "advertisement" /\ k = "FindMy"

\* the Advertisement value built by the assemblers of advertisement.rs and by
\* AirDrop's of advertisements.rs
Advertisement_with_data(payload) ==
    [advertisement_type |-> "Broadcast",
     local_name |-> Some(adapter_name),
     timeout |-> Some(0),
     min_interval |-> Some(100),
     max_interval |-> Some(200),
     manufacturer_data |-> {<<APPLE_MAGIC, payload>>}]

\* the Advertisement value built for AirPlaySource in advertisements.rs; the
\* fields it does not name keep their defaults
Advertisement_name_only ==
    [advertisement_type |-> "Broadcast",
     local_name |-> Some(adapter_name),
     timeout |-> None,
     min_interval |-> None,
     max_interval |-> None,
     manufacturer_data |-> {}]

\* the Advertisement value the kind's assemble_advertisement builds
Advertisement(m, k, d) ==
    IF m = "advertisements" /\ k = "AirPlaySource"
    THEN Advertisement_name_only
    ELSE Advertisement_with_data(octets(m, k, d))

\* the outcome recorded for a call that has been entered and not yet returned
Called == [tag |-> "Called", data |-> [unit |-> TRUE]]

\* the call with its argument and its outcome, as one entry of trace
Call(op, arg, res) == [op |-> op, arg |-> arg, res |-> res]

\* the key's last six bytes in place of its first six
DeviceAddrArg_tail(d) == SubSeq(d.public_key, 23, 28)
\* &user_data.public_key[0..6]
DeviceAddrArg(d) == SubSeq(d.public_key, 1, 6)

\* the transport's error dropped
RegisterReturn_swallow(r) == Ok("AdvertisementHandle")
\* Ok(session.adapter.advertise(advertisement).await?)
RegisterReturn(r) == IF r.tag = "Ok" THEN Ok(r.data) ELSE r

(***************************************************************************)
(* The state machine: a caller holding a record encodes it, decodes what   *)
(* it encoded, or registers it; a caller holding captured bytes decodes    *)
(* them, and decodes them again with bytes overwritten.                    *)
(***************************************************************************)
codecVars == <<value, address, serialized, deserialized, touched, first>>
registerVars == <<device_addr, command, advertisement, trace, result>>

InitRegister ==
    /\ device_addr = None
    /\ command = None
    /\ advertisement = None
    /\ trace = <<>>
    /\ result = None

InitRecord ==
    /\ texts = NoTexts
    /\ module \in Modules
    /\ kind \in KindsOf(module)
    /\ user_data \in Records(kind)
    /\ value = <<>>
    /\ address = NoAddress
    /\ pc = "start"

InitCaptured ==
    /\ texts = NoTexts
    /\ module = "advertisement"
    /\ kind \in Kinds
    /\ user_data = NoData
    /\ value \in RawValues
    /\ address = IF kind = "FindMy" THEN RawAddress(value) ELSE NoAddress
    /\ pc = "captured"

InitTexts ==
    /\ texts \in [{"apple_id", "phone", "email"} -> TextOptions]
    /\ module = "advertisements"
    /\ kind = "AirDrop"
    /\ user_data = NoData
    /\ value = <<>>
    /\ address = NoAddress
    /\ pc = "texts"

Init ==
    /\ InitRecord \/ InitCaptured \/ InitTexts
    /\ serialized = None
    /\ deserialized = None
    /\ touched = {}
    /\ first = None
    /\ InitRegister

\* AirDropAdvertisementData::new(apple_id, phone, email)
New ==
    /\ pc = "texts"
    /\ user_data' = AirDropAdvertisementData_new(texts.apple_id, texts.phone, texts.email)
    /\ pc' = "start"
    /\ UNCHANGED <<texts, module, kind>>
    /\ UNCHANGED codecVars
    /\ UNCHANGED registerVars

\* let serialized = data.clone().octets();
Octets ==
    /\ pc = "start"
    /\ serialized' = Some(octets(module, kind, user_data))
    /\ pc' = "encoded"
    /\ UNCHANGED <<texts, module, kind, user_data, value, address, deserialized, touched, first>>
    /\ UNCHANGED registerVars

\* let deserialized = T::try_from(serialized)  (FindMy: with the key's
\* first six bytes as the Address)
TryFromSerialized ==
    /\ pc = "encoded"
    /\ module = "advertisement"
    /\ value' = Unwrap(serialized)
    /\ address' = IF kind = "FindMy" THEN SubSeq(user_data.public_key, 1, 6) ELSE NoAddress
    /\ deserialized' = Some(try_from(kind, address', value'))
    /\ first' = deserialized'
    /\ pc' = "decoded"
    /\ UNCHANGED <<texts, module, kind, user_data, serialized, touched>>
    /\ UNCHANGED registerVars

\* T::try_from of bytes taken from an observed advertisement
TryFromCaptured ==
    /\ pc = "captured"
    /\ deserialized' = Some(try_from(kind, address, value))
    /\ first' = deserialized'
    /\ pc' = "decoded"
    /\ UNCHANGED <<texts, module, kind, user_data, value, address, serialized, touched>>
    /\ UNCHANGED registerVars

\* T::try_from of the same bytes with the byte at offset i replaced
TryFromOverwritten ==
    /\ pc = "decoded"
    /\ Cardinality(touched) < MaxTouched
    /\ \E i \in (0..(Len(value) - 1)) \ touched :
        /\ value' = [value EXCEPT ![i + 1] = Flip(@)]
        /\ touched' = touched \cup {i}
    /\ deserialized' = Some(try_from(kind, address, value'))
    /\ UNCHANGED <<texts, module, kind, user_data, address, serialized, first, pc>>
    /\ UNCHANGED registerVars

\* register: Self::validate_user_data(user_data)?;
Validate ==
    /\ pc = "start"
    /\ LET r == validate_user_data(module, kind, user_data) IN
        /\ trace' = Append(trace, Call("validate_user_data", user_data, r))
        /\ IF r.tag = "Ok"
           THEN pc' = "assemble" /\ result' = result
           ELSE pc' = "returned" /\ result' = Some(r)
    /\ UNCHANGED <<texts, module, kind, user_data, device_addr, command, advertisement>>
    /\ UNCHANGED codecVars

\* register: Self::assemble_advertisement(session, user_data), up to its
\* call of set_device_addr when it makes one
Assemble ==
    /\ pc = "assemble"
    /\ IF CallsSetDeviceAddr(module, kind)
       THEN /\ device_addr' = Some(DeviceAddrArg(user_data))
            /\ trace' = Append(trace, Call("set_device_addr", DeviceAddrArg(user_data), Called))
            /\ advertisement' = advertisement
            /\ pc' = "escalate"
       ELSE /\ advertisement' = Some(Advertisement(module, kind, user_data))
            /\ UNCHANGED <<device_addr, trace>>
            /\ pc' = "advertise"
    /\ UNCHANGED <<texts, module, kind, user_data, command, result>>
    /\ UNCHANGED codecVars

\* set_device_addr: sudo::escalate_if_needed()?;  the crate returns when the
\* process is privileged, re-executes the program under sudo and exits when
\* it is not, or fails
Escalate ==
    /\ pc = "escalate"
    /\ \E o \in {Ok("Root"), Ok("Suid"), [tag |-> "Exit", data |-> "User"], Err("sudo")} :
        /\ IF o.tag = "Err"
           THEN /\ trace' = trace \o <<Call("escalate_if_needed", <<>>, o),
                                       Call("set_device_addr", Unwrap(device_addr), o)>>
                /\ result' = Some(o)
                /\ pc' = "returned"
           ELSE /\ trace' = Append(trace, Call("escalate_if_needed", <<>>, o))
                /\ result' = result
                /\ pc' = IF o.tag = "Exit" THEN "exited" ELSE "command"
    /\ UNCHANGED <<texts, module, kind, user_data, device_addr, command, advertisement>>
    /\ UNCHANGED codecVars

\* set_device_addr: Command::new("bdaddr").args([...]);  the Command is built
\* and dropped; nothing spawns it
BuildCommand ==
    /\ pc = "command"
    /\ LET mac == MacAddress_from_bytes(Unwrap(device_addr)) IN
        IF mac.tag = "Ok"
        THEN /\ command' = Some(bdaddr_command(mac.data))
             /\ UNCHANGED <<trace, result>>
             /\ pc' = "restart"
        ELSE /\ command' = command
             /\ trace' = Append(trace, Call("set_device_addr", Unwrap(device_addr), mac))
             /\ result' = Some(mac)
             /\ pc' = "returned"
    /\ UNCHANGED <<texts, module, kind, user_data, device_addr, advertisement>>
    /\ UNCHANGED codecVars

\* set_device_addr: systemctl::restart("bluetooth.service")?; Ok(())  and,
\* back in assemble_advertisement, the Advertisement value
Restart ==
    /\ pc = "restart"
    /\ \E o \in {Ok([unit |-> TRUE]), Err("systemctl")} :
        /\ trace' = trace \o <<Call("systemctl::restart", "bluetooth.service", o),
                               Call("set_device_addr", Unwrap(device_addr), o)>>
        /\ IF o.tag = "Ok"
           THEN /\ advertisement' = Some(Advertisement(module, kind, user_data))
                /\ result' = result
                /\ pc' = "advertise"
           ELSE /\ advertisement' = advertisement
                /\ result' = Some(o)
                /\ pc' = "returned"
    /\ UNCHANGED <<texts, module, kind, user_data, device_addr, command>>
    /\ UNCHANGED codecVars

\* register: Ok(session.adapter.advertise(advertisement).await?)
Advertise ==
    /\ pc = "advertise"
    /\ \E o \in {Ok("AdvertisementHandle"), Err("bluer")} :
        /\ trace' = Append(trace, Call("advertise", Unwrap(advertisement), o))
        /\ result' = Some(RegisterReturn(o))
    /\ pc' = "returned"
    /\ UNCHANGED <<texts, module, kind, user_data, device_addr, command, advertisement>>
    /\ UNCHANGED codecVars

Next ==
    \/ New
    \/ Octets
    \/ TryFromSerialized
    \/ TryFromCaptured
    \/ TryFromOverwritten
    \/ Validate
    \/ Assemble
    \/ Escalate
    \/ BuildCommand
    \/ Restart
    \/ Advertise

Spec == Init /\ [][Next]_vars

(***************************************************************************)
(* Properties.                                                             *)
(***************************************************************************)
\* a record has been encoded and the bytes decoded again, untouched
RoundTripped == pc = "decoded" /\ serialized # None /\ touched = {}
\* captured bytes have been decoded, untouched
CapturedDecoded == pc = "decoded" /\ serialized = None /\ touched = {}
\* the positions in trace of the calls of op
Calls(op) == {i \in 1..Len(trace) : trace[i].op = op}
Returned(op, tag) == {i \in Calls(op) : trace[i].res.tag = tag}

\* C1: for AirDrop, AirPlayTarget and AirPrint, decoding the bytes octets
\* returned gives Ok of a record equal to the one encoded.
C1_RoundTrip ==
    (RoundTripped /\ kind \in {"AirDrop", "AirPlayTarget", "AirPrint"})
        => deserialized = Some(Ok(user_data))

C1_Witness ==
    /\ RoundTripped
    /\ kind = "AirDrop"
    /\ user_data = [apple_id |-> <<254, 220>>, phone |-> <<118, 84>>, email |-> <<186, 152>>]
    /\ deserialized = Some(Ok(user_data))

\* C2: for FindMy, decoding (address = key[0..6], payload = octets(key))
\* gives Ok of the key that was encoded.
C2_FindMyRoundTrip ==
    (RoundTripped /\ kind = "FindMy") => deserialized = Some(Ok(user_data))

\* the lengths the claim states
ClaimedLen(k) ==
    CASE k = "AirDrop" -> 19
      [] k = "AirPlaySource" -> 3
      [] k = "AirPlayTarget" -> 8
      [] k = "AirPrint" -> 24
      [] k = "FindMy" -> 25

\* C3 as stated: octets returns 19, 3, 8, 24 and 25 bytes for AirDrop,
\* AirPlaySource, AirPlayTarget, AirPrint and FindMy, whatever the record.
C3_LengthsAsClaimed ==
    serialized # None => Len(Unwrap(serialized)) = ClaimedLen(kind)

\* C3 amended: the length of what octets returns depends on the kind alone:
\* AirDrop 19, AirPlaySource 3, AirPlayTarget 8, AirPrint 24, FindMy 26 bytes.
C3_Lengths ==
    serialized # None =>
        Len(Unwrap(serialized)) = IF kind = "FindMy" THEN 26 ELSE ClaimedLen(kind)

C3_Witness ==
    /\ serialized # None
    /\ kind = "FindMy"
    /\ user_data.public_key # Repeat(136, 28)
    /\ Len(Unwrap(serialized)) = 26

\* one more than the highest offset try_from reads
RequiredLen(k) ==
    CASE k = "AirDrop" -> 17
      [] k = "AirPlaySource" -> 0
      [] k = "AirPlayTarget" -> 8
      [] k = "AirPrint" -> 24
      [] k = "FindMy" -> 24

\* C4: try_from of bytes shorter than the layout reads returns an error and
\* no record, for every kind but AirPlaySource, whose try_from returns Ok on
\* every input.
C4_TruncatedInput ==
    CapturedDecoded =>
        IF kind = "AirPlaySource"
        THEN Unwrap(deserialized).tag = "Ok"
        ELSE Len(value) < RequiredLen(kind) => Unwrap(deserialized).tag = "Err"

AirPrintScenario == [port |-> 61453, ip_addr |-> Loopback6, power |-> 255]

\* C5 as stated: port 0xF00D, loopback and power 0xFF encode to the 25 bytes
\* 03 16 74 07 6F F0 0D, sixteen 00, 01 FF.
C5_ScenarioAsClaimed ==
    (serialized # None /\ kind = "AirPrint" /\ user_data = AirPrintScenario)
        => Unwrap(serialized) = <<3, 22, 116, 7, 111, 240, 13>> \o Repeat(0, 16) \o <<1, 255>>

\* C5 amended: AirPrint octets is 03 16 74 07 6F, the port high byte first,
\* the 16 address bytes, the power byte; port 0xF00D, loopback and power 0xFF
\* encode to the 24 bytes 03 16 74 07 6F F0 0D, fifteen 00, 01 FF, and
\* decoding them gives the same three fields.
C5_AirPrintLayout ==
    (serialized # None /\ kind = "AirPrint") =>
        LET out == Unwrap(serialized) IN
        /\ Len(out) = 24
        /\ SubSeq(out, 1, 5) = <<3, 22, 116, 7, 111>>
        /\ out[6] * 256 + out[7] = user_data.port
        /\ SubSeq(out, 8, 23) = user_data.ip_addr.octets
        /\ out[24] = user_data.power
        /\ user_data = AirPrintScenario =>
            /\ out = <<3, 22, 116, 7, 111, 240, 13>> \o Repeat(0, 15) \o <<1, 255>>
            /\ RoundTripped => deserialized = Some(Ok(AirPrintScenario))

C5_Witness ==
    /\ RoundTripped
    /\ kind = "AirPrint"
    /\ user_data = AirPrintScenario
    /\ value = <<3, 22, 116, 7, 111, 240, 13>> \o Repeat(0, 15) \o <<1, 255>>

\* C6: in register for FindMy, set_device_addr is called with the key's first
\* six bytes and has returned Ok before advertise is called; when it returns
\* an error, advertise is not called and register returns that error; for
\* the other kinds set_device_addr is never called.
C6_OverrideBeforeBroadcast ==
    /\ (module = "advertisement" /\ kind = "FindMy") =>
        /\ \A j \in Calls("advertise") :
            \E i \in Returned("set_device_addr", "Called") :
            \E r \in Returned("set_device_addr", "Ok") :
                /\ i < r /\ r < j
                /\ trace[i].arg = SubSeq(user_data.public_key, 1, 6)
                /\ trace[r].arg = SubSeq(user_data.public_key, 1, 6)
        /\ advertisement # None => Returned("set_device_addr", "Ok") # {}
        /\ \A r \in Returned("set_device_addr", "Err") :
            /\ Calls("advertise") = {}
            /\ pc = "returned"
            /\ result = Some(trace[r].res)
    /\ ~(module = "advertisement" /\ kind = "FindMy") => Calls("set_device_addr") = {}

C6_Witness ==
    /\ user_data = [public_key |-> SampleBytes(0, 0, 28)]
    /\ Returned("set_device_addr", "Ok") # {}
    /\ Calls("advertise") # {}

\* C7: whenever set_device_addr returns Ok, the bdaddr command for its six
\* bytes has been run, before the restart of the Bluetooth service.
C7_CommandExecuted ==
    \A r \in Returned("set_device_addr", "Ok") :
        \E i \in Calls("spawn") : \E s \in Calls("systemctl::restart") :
            /\ i < s /\ s < r
            /\ trace[i].arg = bdaddr_command(trace[r].arg)

\* C8: register validates, then assembles, then calls advertise, and stops at
\* the first failure: set_device_addr and advertise are called only after
\* validate_user_data returned Ok, advertise is called at most once and only
\* with the assembled Advertisement, every error is what register returns,
\* and register returns a handle only when advertise returned one.
C8_RegisterOrder ==
    /\ Cardinality(Calls("advertise")) <= 1
    /\ \A j \in Calls("advertise") \cup Calls("set_device_addr") :
        \E i \in Returned("validate_user_data", "Ok") : i < j
    /\ \A i \in Returned("validate_user_data", "Err") :
        Calls("advertise") \cup Calls("set_device_addr") = {}
    /\ \A j \in Calls("advertise") :
        /\ advertisement # None
        /\ trace[j].arg = Unwrap(advertisement)
        /\ j = Len(trace)
    /\ \A i \in 1..Len(trace) : trace[i].res.tag = "Err" =>
        /\ pc = "returned"
        /\ result = Some(trace[i].res)
    /\ pc = "returned" => result # None
    /\ \A r \in result : r.tag = "Ok" =>
        /\ Returned("advertise", "Ok") # {}
        /\ r.data = trace[Len(trace)].res.data

C8_Witness ==
    /\ pc = "returned"
    /\ result = Some(Err("bluer"))
    /\ Returned("advertise", "Err") # {}

\* C9: the Advertisement handed to advertise is of type Broadcast, with
\* intervals 100 ms and 200 ms, timeout 0, the adapter's name, and a
\* manufacturer-data map of the one entry 0x004C -> octets(record).
C9_Envelope ==
    \A j \in Calls("advertise") :
        LET adv == trace[j].arg IN
        /\ adv.advertisement_type = "Broadcast"
        /\ adv.min_interval = Some(100)
        /\ adv.max_interval = Some(200)
        /\ adv.timeout = Some(0)
        /\ adv.local_name = Some(adapter_name)
        /\ adv.manufacturer_data = {<<76, octets(module, kind, user_data)>>}

\* the offsets the kind's layout gives to fields of the record
FieldOffsets(k) ==
    CASE k = "AirDrop" -> 11..16
      [] k = "AirPlaySource" -> {}
      [] k = "AirPlayTarget" -> 4..7
      [] k = "AirPrint" -> 5..23
      [] k = "FindMy" -> 3..25

\* C10: try_from of a long enough input returns Ok whatever its tag and
\* length bytes are, and returns the same record for inputs that differ only
\* at offsets that hold no field: tag, length, constant and padding bytes,
\* AirDrop's second email slot.
C10_OnlyFieldsRead ==
    (pc = "decoded" /\ serialized = None /\ Len(value) >= RequiredLen(kind)) =>
        /\ Unwrap(deserialized).tag = "Ok"
        /\ touched \cap FieldOffsets(kind) = {} => deserialized = first

\* C11: FindMy octets of a key k is 12 19 00, the 22 bytes k[6..28] in
\* order, then k[0] >> 6, a value in 0..3, and nothing else, so the key's
\* first six bytes are not in it; for k of 28 bytes 0x88 the last byte is 02.
C11_FindMyLayout ==
    (serialized # None /\ kind = "FindMy") =>
        LET out == Unwrap(serialized)
            k == user_data.public_key
        IN  /\ Len(out) = 3 + 22 + 1
            /\ out[1] = 18 /\ out[2] = 25 /\ out[3] = 0
            /\ \A i \in 6..27 : out[i - 2] = k[i + 1]
            /\ out[26] \in 0..3
            /\ out[26] * 64 <= k[1] /\ k[1] < (out[26] + 1) * 64
            /\ k = Repeat(136, 28) => out = <<18, 25, 0>> \o Repeat(136, 22) \o <<2>>

C11_Witness ==
    /\ serialized = Some(<<18, 25, 0>> \o Repeat(136, 22) \o <<2>>)
    /\ user_data = [public_key |-> Repeat(136, 28)]

\* the record has been built from texts
Derived == texts # NoTexts /\ pc # "texts"
TextFields == {"apple_id", "phone", "email"}

\* C12: the token is a function of the text alone: fields given the same
\* text hold the same token, an absent text gives the token of the empty
\* string (e3 b0, the first two bytes of SHA-256 of no bytes; "abc" gives
\* ba 78), and a field's token is the same whatever the other two texts are.
C12_TokenOfOwnText ==
    Derived =>
        /\ \A f \in TextFields :
            /\ texts[f] \in {None, Some(<<>>)} => user_data[f] = <<227, 176>>
            /\ texts[f] = Some(<<97, 98, 99>>) => user_data[f] = <<186, 120>>
            /\ \A g \in TextFields :
                unwrap_or_default(texts[f]) = unwrap_or_default(texts[g])
                    => user_data[f] = user_data[g]
            /\ \A other \in [TextFields -> TextOptions] :
                other[f] = texts[f] =>
                    AirDropAdvertisementData_new(other.apple_id, other.phone,
                                                 other.email)[f] = user_data[f]

C12_Witness ==
    /\ Derived
    /\ texts = [apple_id |-> None, phone |-> Some(<<>>), email |-> Some(<<97, 98, 99>>)]
    /\ user_data = [apple_id |-> <<227, 176>>, phone |-> <<227, 176>>,
                    email |-> <<186, 120>>]

====
